---- MODULE Spec2Model ----
(***************************************************************************)
(* Model of packages/api-client/src/views/Request/libs/live-sync.ts:      *)
(* the rename combiner, the resource finder, the schema helpers and the   *)
(* payload builders that turn a structural diff of two OpenAPI documents  *)
(* into add/edit/delete commands against the normalized store.            *)
(***************************************************************************)
EXTENDS Integers, Sequences, FiniteSets, TLC

VARIABLES pc, input, output, store

vars == <<pc, input, output, store>>

(***************************************************************************)
(* Bounds of the model.                                                   *)
(***************************************************************************)
MaxDiffLen == 3
MaxKeys == 2
MaxWrap == 2

(***************************************************************************)
(* JavaScript values.  Every value carries its type tag, so that a string *)
(* is never equal to a number and `undefined` is a value of its own.      *)
(* An object is the sequence of its <<key, value>> entries in insertion   *)
(* order (the order `for..in` and Object.entries walk).                   *)
(***************************************************************************)
Undefined == [t |-> "undefined"]
Str(s) == [t |-> "string", s |-> s]
Num(n) == [t |-> "number", n |-> n]
Bool(b) == [t |-> "boolean", b |-> b]
Arr(a) == [t |-> "array", a |-> a]
Obj(e) == [t |-> "object", e |-> e]

IsContainer(v) == v.t \in {"array", "object"}

\* JavaScript truthiness: undefined, "", 0 and false are falsy.
Truthy(v) ==
  CASE v.t = "undefined" -> FALSE
    [] v.t = "string" -> v.s # ""
    [] v.t = "number" -> v.n # 0
    [] v.t = "boolean" -> v.b
    [] v.t = "null" -> FALSE
    [] OTHER -> TRUE

(***************************************************************************)
(* Path segments: a string key or a numeric index; NoSeg is the undefined *)
(* that reading past the end of a path array yields.                      *)
(***************************************************************************)
Key(s) == [key |-> s]
Idx(n) == [idx |-> n]
NoSeg == [none |-> TRUE]

IsNumber(seg) == "idx" \in DOMAIN seg
IsString(seg) == "key" \in DOMAIN seg

\* path[i], 0-based as in the source
At(path, i) == IF i >= 0 /\ i < Len(path) THEN path[i + 1] ELSE NoSeg
\* path.at(-1)
AtLast(path) == At(path, Len(path) - 1)
\* path.slice(n)
Slice(path, n) == IF n >= Len(path) THEN <<>> ELSE SubSeq(path, n + 1, Len(path))
\* path.slice(0, -1)
DropLast(path) == IF Len(path) = 0 THEN <<>> ELSE SubSeq(path, 1, Len(path) - 1)

SegTruthy(seg) ==
  IF IsString(seg) THEN seg.key # "" ELSE IF IsNumber(seg) THEN seg.idx # 0 ELSE FALSE

\* a path segment used as a value (oldValue: currPath, value: nextPath)
SegValue(seg) ==
  IF IsString(seg) THEN Str(seg.key) ELSE IF IsNumber(seg) THEN Num(seg.idx) ELSE Undefined

\* String(segment), as Array.prototype.join renders one element
SegString(seg) ==
  IF IsString(seg) THEN seg.key ELSE IF IsNumber(seg) THEN ToString(seg.idx) ELSE ""

\* path.join('.')
RECURSIVE Join(_)
Join(path) ==
  IF Len(path) = 0 THEN ""
  ELSE IF Len(path) = 1 THEN SegString(path[1])
  ELSE SegString(path[1]) \o "." \o Join(Tail(path))

(***************************************************************************)
(* Object and array access.                                               *)
(***************************************************************************)
ObjKeys(o) == [i \in 1..Len(o.e) |-> o.e[i][1]]
ObjHas(o, k) == \E i \in 1..Len(o.e) : o.e[i][1] = k
ObjGet(o, k) ==
  IF ObjHas(o, k) THEN o.e[CHOOSE i \in 1..Len(o.e) : o.e[i][1] = k][2] ELSE Undefined

\* the enumerable keys of a container, as path segments, in for..in order
KeysOf(v) ==
  IF v.t = "array" THEN [i \in 1..Len(v.a) |-> Idx(i - 1)]
  ELSE IF v.t = "object" THEN [i \in 1..Len(v.e) |-> Key(v.e[i][1])]
  ELSE <<>>

\* key in container
HasSeg(v, seg) ==
  IF v.t = "array" THEN IsNumber(seg) /\ seg.idx < Len(v.a)
  ELSE IF v.t = "object" THEN IsString(seg) /\ ObjHas(v, seg.key)
  ELSE FALSE

\* container[key]
Child(v, seg) ==
  IF ~HasSeg(v, seg) THEN Undefined
  ELSE IF v.t = "array" THEN v.a[seg.idx + 1]
  ELSE ObjGet(v, seg.key)

(***************************************************************************)
(* Diff entries (microdiff's Difference).  An absent value or oldValue is *)
(* Undefined.                                                             *)
(***************************************************************************)
Entry(type, path, value, oldValue) ==
  [type |-> type, path |-> path, value |-> value, oldValue |-> oldValue]

PrefixPath(prefix, d) == [d EXCEPT !.path = prefix \o @]

RECURSIVE Flatten(_)
Flatten(ss) == IF Len(ss) = 0 THEN <<>> ELSE Head(ss) \o Flatten(Tail(ss))

(***************************************************************************)
(* microdiff(obj, newObj): the structural diff the combiner calls.  It    *)
(* walks the keys of obj (REMOVE, nested diff or CHANGE), then the keys   *)
(* of newObj that obj lacks (CREATE).  Two values are diffed key by key   *)
(* only when both are arrays or both are objects.                         *)
(***************************************************************************)
RECURSIVE microdiff(_, _)
microdiff(obj, newObj) ==
  LET oldKeys == KeysOf(obj)
      newKeys == KeysOf(newObj)
      forOld(k) ==
        IF ~HasSeg(newObj, k)
        THEN <<Entry("REMOVE", <<k>>, Undefined, Child(obj, k))>>
        ELSE LET objKey == Child(obj, k)
                 newObjKey == Child(newObj, k)
             IN  IF IsContainer(objKey) /\ IsContainer(newObjKey) /\ objKey.t = newObjKey.t
                 THEN LET nested == microdiff(objKey, newObjKey)
                      IN  [i \in 1..Len(nested) |-> PrefixPath(<<k>>, nested[i])]
                 ELSE IF objKey # newObjKey
                 THEN <<Entry("CHANGE", <<k>>, newObjKey, objKey)>>
                 ELSE <<>>
      forNew(k) ==
        IF ~HasSeg(obj, k)
        THEN <<Entry("CREATE", <<k>>, Child(newObj, k), Undefined)>>
        ELSE <<>>
  IN  Flatten([i \in 1..Len(oldKeys) |-> forOld(oldKeys[i])])
        \o Flatten([i \in 1..Len(newKeys) |-> forNew(newKeys[i])])

\* microdiff tests `key in newObj` for every enumerable key of obj, and `key in
\* obj` for every enumerable key of newObj.  The `in` operator raises a TypeError
\* when its right operand is a primitive; a non-empty string has its character
\* indices as enumerable keys, a number, a boolean and undefined have none.
HasEnumerableKeys(v) ==
  IF IsContainer(v) THEN Len(KeysOf(v)) > 0 ELSE v.t = "string" /\ v.s # ""

microdiffThrows(obj, newObj) ==
  \/ HasEnumerableKeys(obj) /\ ~IsContainer(newObj)
  \/ HasEnumerableKeys(newObj) /\ ~IsContainer(obj)

(***************************************************************************)
(* combineRenameDiffs(diff, pathPrefix).  The result holds the returned   *)
(* list `combined`, the list `diff` as the call leaves it (a nested call  *)
(* assigns to the path of its entries), `threw` (an exception left the    *)
(* call) and, for each input index, the length of `combined` after that   *)
(* iteration (`marks`).                                                   *)
(***************************************************************************)
RECURSIVE combineRenameDiffs(_, _)
RECURSIVE combineLoop(_, _, _, _)

\* lines 62-99: a REMOVE followed by a CREATE
combineRename(current, next, pathPrefix) ==
  LET currPath == At(current.path, 1)
      currMethod == At(current.path, 2)
      nextPath == At(next.path, 1)
      nextMethod == At(next.path, 2)
      pathChange ==
        IF currPath # nextPath
        THEN <<Entry("CHANGE", <<Key("paths"), Key("path")>>,
                     SegValue(nextPath), SegValue(currPath))>>
        ELSE <<>>
      methodRenamed ==
        SegTruthy(currMethod) /\ SegTruthy(nextMethod) /\ currMethod # nextMethod
      methodChange ==
        IF methodRenamed
        THEN <<Entry("CHANGE", <<Key("paths"), nextPath, Key("method")>>,
                     SegValue(nextMethod), SegValue(currMethod))>>
        ELSE <<>>
      nestedPrefix ==
        <<Key("paths"), nextPath>> \o (IF methodRenamed THEN <<nextMethod>> ELSE <<>>)
      outermost == Len(pathPrefix) = 0
      threw == outermost /\ microdiffThrows(current.oldValue, next.value)
      innerDiff ==
        IF outermost /\ ~threw THEN microdiff(current.oldValue, next.value) ELSE <<>>
      innerCombined ==
        IF Len(innerDiff) > 0
        THEN combineRenameDiffs(innerDiff, nestedPrefix).combined
        ELSE <<>>
  IN  [pushed |-> pathChange \o methodChange \o innerCombined, threw |-> threw]

\* lines 52-60: in a top-level call an entry outside `paths` is pushed untouched
passesThrough(current, pathPrefix) ==
  Len(pathPrefix) = 0 /\ At(current.path, 0) # Key("paths")

\* line 62: current.type === 'REMOVE' && next?.type === 'CREATE'
isRenamePair(current, hasNext, next) ==
  current.type = "REMOVE" /\ hasNext /\ next.type = "CREATE"

\* mutant of isDeepField: the length test off by one
isDeepFieldOffByOne(current) ==
  Len(current.path) >= 3 /\ ~IsNumber(AtLast(current.path))

\* lines 103-104 and 111-112: not a path, a method or an array element
isDeepField(current) ==
  Len(current.path) > 3 /\ ~IsNumber(AtLast(current.path))

\* the for loop (lines 42-120) from index i, 0-based
combineLoop(diff, pathPrefix, i, st) ==
  IF i >= Len(diff)
  THEN [combined |-> st.combined, diff |-> diff, marks |-> st.marks, threw |-> FALSE]
  ELSE IF st.skipNext
  THEN combineLoop(diff, pathPrefix, i + 1,
                   [st EXCEPT !.skipNext = FALSE, !.marks = Append(@, Len(st.combined))])
  ELSE
    LET nested == Len(pathPrefix) > 0
        hasNext == i + 1 < Len(diff)
        \* lines 52-55: current.path and next.path are reassigned in place
        diff1 ==
          IF nested
          THEN [j \in 1..Len(diff) |->
                  IF j = i + 1 \/ j = i + 2 THEN PrefixPath(pathPrefix, diff[j]) ELSE diff[j]]
          ELSE diff
        current == diff1[i + 1]
        next == IF hasNext THEN diff1[i + 2] ELSE Entry("none", <<>>, Undefined, Undefined)
        renaming == ~passesThrough(current, pathPrefix) /\ isRenamePair(current, hasNext, next)
        renamed == combineRename(current, next, pathPrefix)
        pushed ==
          IF passesThrough(current, pathPrefix) THEN <<current>>
          ELSE IF renaming THEN renamed.pushed
          ELSE IF current.type = "CREATE" /\ isDeepField(current)
          THEN <<[current EXCEPT !.type = "CHANGE", !.oldValue = Undefined]>>
          ELSE IF current.type = "REMOVE" /\ isDeepField(current)
          THEN <<[current EXCEPT !.type = "CHANGE", !.value = Undefined]>>
          ELSE <<current>>
    IN  IF renaming /\ renamed.threw
        THEN [combined |-> st.combined, diff |-> diff1, marks |-> st.marks, threw |-> TRUE]
        ELSE combineLoop(diff1, pathPrefix, i + 1,
                         [combined |-> st.combined \o pushed,
                          marks |-> Append(st.marks, Len(st.combined) + Len(pushed)),
                          skipNext |-> renaming])

combineRenameDiffs(diff, pathPrefix) ==
  combineLoop(diff, pathPrefix, 0,
              [combined |-> <<>>, marks |-> <<>>, skipNext |-> FALSE])

(***************************************************************************)
(* findResource(arr, resources, condition), lines 126-136.  `resources`   *)
(* is a table from uid to entity; reading a uid it does not hold yields   *)
(* undefined, and every condition the builders pass (lines 334, 410, 420, *)
(* 561) reads a property of its argument, which raises a TypeError on     *)
(* undefined.  `condition` is given by its value on each resource of the  *)
(* table, keyed by uid.  The result holds `resource` (null when the loop  *)
(* runs out) and `threw`.                                                 *)
(***************************************************************************)
Null == [t |-> "null"]

\* resources[uid]
Lookup(resources, uid) == IF uid \in DOMAIN resources THEN resources[uid] ELSE Undefined

findResource(arr, resources, condition) ==
  LET scan[i \in 1..(Len(arr) + 1)] ==
        IF i > Len(arr) THEN [threw |-> FALSE, resource |-> Null]
        ELSE LET resource == Lookup(resources, arr[i])
             IN  IF resource = Undefined THEN [threw |-> TRUE, resource |-> Null]
                 ELSE IF condition[arr[i]] THEN [threw |-> FALSE, resource |-> resource]
                 ELSE scan[i + 1]
  IN  scan[1]

(***************************************************************************)
(* Zod schemas, by constructor.  An object schema holds its shape as the  *)
(* sequence of <<key, schema>> in declaration order; a union holds its    *)
(* options in declaration order.                                          *)
(***************************************************************************)
ZodString == [z |-> "ZodString"]
ZodNumber == [z |-> "ZodNumber"]
ZodBoolean == [z |-> "ZodBoolean"]
ZodAny == [z |-> "ZodAny"]
ZodLiteral(value) == [z |-> "ZodLiteral", value |-> value]
ZodEnum(values) == [z |-> "ZodEnum", values |-> values]
ZodObject(shape) == [z |-> "ZodObject", shape |-> shape]
ZodArray(element) == [z |-> "ZodArray", element |-> element]
ZodRecord(valueSchema) == [z |-> "ZodRecord", valueSchema |-> valueSchema]
ZodOptional(inner) == [z |-> "ZodOptional", inner |-> inner]
ZodDefault(innerType, defaultValue) ==
  [z |-> "ZodDefault", innerType |-> innerType, defaultValue |-> defaultValue]
ZodUnion(options) == [z |-> "ZodUnion", options |-> options]
ZodDiscriminatedUnion(discriminator, options) ==
  [z |-> "ZodDiscriminatedUnion", discriminator |-> discriminator, options |-> options]

\* the `null` a schema helper returns
NoSchema == [z |-> "null"]

\* key in schema.shape, schema.shape[key]
ShapeHas(schema, key) == \E i \in 1..Len(schema.shape) : schema.shape[i][1] = key
ShapeGet(schema, key) ==
  schema.shape[CHOOSE i \in 1..Len(schema.shape) : schema.shape[i][1] = key][2]

\* lines 139-143
RECURSIVE unwrapSchema(_)
unwrapSchema(schema) ==
  IF schema.z = "ZodOptional" THEN unwrapSchema(schema.inner)
  ELSE IF schema.z = "ZodDefault" THEN unwrapSchema(schema.innerType)
  ELSE schema

\* mutant of optionMatches: the literal's value is not compared
optionMatchesAnyLiteral(option, key, value) ==
  /\ option.z = "ZodObject"
  /\ ShapeHas(option, key)
  /\ ShapeGet(option, key).z = "ZodLiteral"

\* lines 526-531
optionMatches(option, key, value) ==
  /\ option.z = "ZodObject"
  /\ ShapeHas(option, key)
  /\ ShapeGet(option, key).z = "ZodLiteral"
  /\ ShapeGet(option, key).value = value

\* lines 514-537
narrowUnionSchema(schema, key, value) ==
  LET _schema == unwrapSchema(schema)
      scan[i \in 1..(IF _schema.z \in {"ZodUnion", "ZodDiscriminatedUnion"}
                     THEN Len(_schema.options) + 1 ELSE 1)] ==
        IF i > Len(_schema.options) THEN NoSchema
        ELSE IF optionMatches(_schema.options[i], key, value) THEN _schema.options[i]
        ELSE scan[i + 1]
  IN  IF _schema.z \in {"ZodUnion", "ZodDiscriminatedUnion"} THEN scan[1] ELSE NoSchema

\* the for loop of lines 155-202, from key i (1-based) of the path
RECURSIVE traverseFrom(_, _, _)
traverseFrom(schema, path, i) ==
  IF i > Len(path) THEN schema
  ELSE
    LET key == path[i]
        currentSchema == unwrapSchema(schema)
    IN  IF currentSchema.z = "ZodAny" THEN currentSchema
        ELSE IF currentSchema.z = "ZodObject" /\ IsString(key)
                /\ ShapeHas(currentSchema, key.key)
        THEN traverseFrom(unwrapSchema(ShapeGet(currentSchema, key.key)), path, i + 1)
        ELSE IF currentSchema.z = "ZodArray"
        THEN IF IsNumber(key)
             THEN traverseFrom(unwrapSchema(currentSchema.element), path, i + 1)
             ELSE IF IsString(key)
             THEN IF currentSchema.element.z = "ZodObject"
                     /\ ShapeHas(currentSchema.element, key.key)
                  THEN traverseFrom(unwrapSchema(ShapeGet(currentSchema.element, key.key)),
                                    path, i + 1)
                  ELSE NoSchema
             ELSE NoSchema
        ELSE IF currentSchema.z = "ZodRecord"
        THEN traverseFrom(unwrapSchema(currentSchema.valueSchema), path, i + 1)
        ELSE NoSchema

\* lines 149-205
traverseZodSchema(schema, path) == traverseFrom(schema, path, 1)

(***************************************************************************)
(* schema.safeParse(value): success and the parsed data.  An object       *)
(* schema keeps only the keys of its shape (unknown keys are stripped), a *)
(* default fills in an undefined value, a union takes its first option    *)
(* that parses.                                                           *)
(***************************************************************************)
RECURSIVE safeParse(_, _)
safeParse(schema, v) ==
  LET ok(d) == [success |-> TRUE, data |-> d]
      fail == [success |-> FALSE, data |-> Undefined]
  IN  CASE schema.z = "ZodString" -> IF v.t = "string" THEN ok(v) ELSE fail
        [] schema.z = "ZodNumber" -> IF v.t = "number" THEN ok(v) ELSE fail
        [] schema.z = "ZodBoolean" -> IF v.t = "boolean" THEN ok(v) ELSE fail
        [] schema.z = "ZodAny" -> ok(v)
        [] schema.z = "ZodLiteral" -> IF v = schema.value THEN ok(v) ELSE fail
        [] schema.z = "ZodEnum" ->
             IF v.t = "string" /\ v.s \in schema.values THEN ok(v) ELSE fail
        [] schema.z = "ZodOptional" ->
             IF v = Undefined THEN ok(Undefined) ELSE safeParse(schema.inner, v)
        [] schema.z = "ZodDefault" ->
             safeParse(schema.innerType, IF v = Undefined THEN schema.defaultValue ELSE v)
        [] schema.z = "ZodObject" ->
             IF v.t # "object" THEN fail
             ELSE LET parts == [i \in 1..Len(schema.shape) |->
                                  safeParse(schema.shape[i][2], ObjGet(v, schema.shape[i][1]))]
                      entries == [i \in 1..Len(schema.shape) |->
                                    <<schema.shape[i][1], parts[i].data>>]
                  IN  IF \E i \in 1..Len(parts) : ~parts[i].success THEN fail
                      ELSE ok(Obj(SelectSeq(entries,
                                            LAMBDA e : e[2] # Undefined \/ ObjHas(v, e[1]))))
        [] schema.z = "ZodArray" ->
             IF v.t # "array" THEN fail
             ELSE LET parts == [i \in 1..Len(v.a) |-> safeParse(schema.element, v.a[i])]
                  IN  IF \E i \in 1..Len(parts) : ~parts[i].success THEN fail
                      ELSE ok(Arr([i \in 1..Len(parts) |-> parts[i].data]))
        [] schema.z = "ZodRecord" ->
             IF v.t # "object" THEN fail
             ELSE LET parts == [i \in 1..Len(v.e) |-> safeParse(schema.valueSchema, v.e[i][2])]
                  IN  IF \E i \in 1..Len(parts) : ~parts[i].success THEN fail
                      ELSE ok(Obj([i \in 1..Len(parts) |-> <<v.e[i][1], parts[i].data>>]))
        [] schema.z = "ZodUnion" ->
             LET parts == [i \in 1..Len(schema.options) |-> safeParse(schema.options[i], v)]
                 hits == {i \in 1..Len(parts) : parts[i].success}
             IN  IF hits = {} THEN fail
                 ELSE parts[CHOOSE i \in hits : \A j \in hits : i <= j]
        [] schema.z = "ZodDiscriminatedUnion" ->
             LET hits == {i \in 1..Len(schema.options) :
                            /\ v.t = "object"
                            /\ optionMatches(schema.options[i], schema.discriminator,
                                             ObjGet(v, schema.discriminator))}
             IN  IF hits = {} THEN fail
                 ELSE safeParse(schema.options[CHOOSE i \in hits : TRUE], v)
        [] OTHER -> fail

\* schema.parse(value): raises where safeParse fails
parseThrows(schema, v) == ~safeParse(schema, v).success

\* schemaModel(data, schema, false): the parsed data, or nothing when the parse fails
schemaModel(data, schema) == safeParse(schema, data).data

(***************************************************************************)
(* parseDiff(schema, diff), lines 213-247.  `at` and `atMinusOne` are the *)
(* segments that `path` and `pathMinusOne` join.                          *)
(***************************************************************************)
NoParse == [ok |-> FALSE]

\* line 240: if (!parsedValue) return null
isParsed(parsedValue) == Truthy(parsedValue)

parseDiff(schema, diff) ==
  LET parsedSchema == traverseZodSchema(schema, diff.path)
      parsedValue == schemaModel(diff.value, parsedSchema)
      result(value) ==
        [ok |-> TRUE,
         path |-> Join(diff.path), pathMinusOne |-> Join(DropLast(diff.path)),
         at |-> diff.path, atMinusOne |-> DropLast(diff.path),
         value |-> value]
  IN  IF parsedSchema = NoSchema THEN NoParse
      ELSE IF diff.type = "REMOVE" THEN result(Undefined)
      ELSE IF ~isParsed(parsedValue) THEN NoParse
      ELSE result(parsedValue)

\* getNestedValue(entity, path): the walk from the entity along the path
RECURSIVE getNestedValue(_, _)
getNestedValue(entity, at) ==
  IF Len(at) = 0 THEN entity
  ELSE IF ~IsContainer(entity) THEN Undefined
  ELSE getNestedValue(Child(entity, Head(at)), Tail(at))

(***************************************************************************)
(* The entity schemas the builders import (lines 10-15), reduced to the   *)
(* fields the diffs of this model touch.  A uid is generated by default.  *)
(***************************************************************************)
NanoId == Str("<nanoid>")
Fields(f) == ZodObject(f)
StringWithDefault(d) == ZodDefault(ZodString, Str(d))
SecurityRequirement == ZodRecord(ZodArray(ZodString))

\* isHTTPMethod(method)
HTTPMethods ==
  {"get", "post", "put", "delete", "patch", "head", "options", "trace", "connect"}
isHTTPMethod(method) == IsString(method) /\ method.key \in HTTPMethods

collectionSchema ==
  Fields(<< <<"uid", ZodDefault(ZodString, NanoId)>>,
            <<"info", ZodOptional(Fields(<< <<"title", ZodString>>,
                                            <<"description", ZodOptional(ZodString)>> >>))>>,
            <<"security", ZodDefault(ZodArray(SecurityRequirement), Arr(<<>>))>>,
            <<"requests", ZodDefault(ZodArray(ZodString), Arr(<<>>))>>,
            <<"servers", ZodDefault(ZodArray(ZodString), Arr(<<>>))>>,
            <<"tags", ZodDefault(ZodArray(ZodString), Arr(<<>>))>>,
            <<"securitySchemes", ZodDefault(ZodArray(ZodString), Arr(<<>>))>> >>)

requestSchema ==
  Fields(<< <<"uid", ZodDefault(ZodString, NanoId)>>,
            <<"path", StringWithDefault("")>>,
            <<"method", ZodDefault(ZodEnum(HTTPMethods), Str("get"))>>,
            <<"summary", ZodOptional(ZodString)>>,
            <<"description", ZodOptional(ZodString)>>,
            <<"tags", ZodOptional(ZodArray(ZodString))>>,
            <<"servers", ZodDefault(ZodArray(ZodString), Arr(<<>>))>>,
            <<"parameters", ZodDefault(ZodArray(ZodAny), Arr(<<>>))>>,
            <<"security", ZodOptional(ZodArray(SecurityRequirement))>> >>)

serverSchema ==
  Fields(<< <<"uid", ZodDefault(ZodString, NanoId)>>,
            <<"url", ZodString>>,
            <<"description", ZodOptional(ZodString)>>,
            <<"variables",
              ZodOptional(ZodRecord(Fields(<< <<"default", ZodString>>,
                                              <<"description", ZodOptional(ZodString)>> >>)))>> >>)

tagSchema ==
  Fields(<< <<"uid", ZodDefault(ZodString, NanoId)>>,
            <<"name", ZodString>>,
            <<"description", ZodOptional(ZodString)>> >>)

\* line 590: the scopes of a flow are a union of their own
scopesSchema ==
  ZodDefault(ZodUnion(<<ZodRecord(ZodOptional(ZodString)), Fields(<<>>)>>), Obj(<<>>))

oasOauthFlowSchema ==
  ZodDiscriminatedUnion("type",
    << Fields(<< <<"type", ZodLiteral(Str("implicit"))>>,
                 <<"authorizationUrl", StringWithDefault("")>>,
                 <<"scopes", scopesSchema>>,
                 <<"token", StringWithDefault("")>> >>),
       Fields(<< <<"type", ZodLiteral(Str("password"))>>,
                 <<"tokenUrl", StringWithDefault("")>>,
                 <<"scopes", scopesSchema>>,
                 <<"token", StringWithDefault("")>> >>) >>)

ImplicitFlow ==
  Obj(<< <<"type", Str("implicit")>>, <<"authorizationUrl", Str("")>>,
         <<"scopes", Obj(<<>>)>>, <<"token", Str("")>> >>)

securitySchemeSchema ==
  ZodUnion(
    << Fields(<< <<"uid", ZodDefault(ZodString, NanoId)>>,
                 <<"nameKey", StringWithDefault("")>>,
                 <<"type", ZodLiteral(Str("apiKey"))>>,
                 <<"name", StringWithDefault("")>>,
                 <<"in", ZodDefault(ZodEnum({"query", "header", "cookie"}), Str("header"))>> >>),
       Fields(<< <<"uid", ZodDefault(ZodString, NanoId)>>,
                 <<"nameKey", StringWithDefault("")>>,
                 <<"type", ZodLiteral(Str("http"))>>,
                 <<"scheme", ZodDefault(ZodEnum({"basic", "bearer"}), Str("basic"))>> >>),
       Fields(<< <<"uid", ZodDefault(ZodString, NanoId)>>,
                 <<"nameKey", StringWithDefault("")>>,
                 <<"type", ZodLiteral(Str("oauth2"))>>,
                 <<"flow", ZodDefault(oasOauthFlowSchema, ImplicitFlow)>> >>) >>)

(***************************************************************************)
(* Commands and builder results.  A builder returns its commands (none    *)
(* for a null or an empty result) or an exception leaves it (`threw`).    *)
(* `at` holds the segments the field path of an edit joins.               *)
(***************************************************************************)
EditCommand(uid, path, at, value) ==
  [method |-> "edit", uid |-> uid, path |-> path, at |-> at, value |-> value]
AddCommand(entity, parentUid) ==
  [method |-> "add", entity |-> entity, parentUid |-> parentUid]
DeleteCommand(uid, parentUid) ==
  [method |-> "delete", uid |-> uid, parentUid |-> parentUid]
\* line 622: the delete of a security scheme names no collection
NoParent == ""

Thrown == [threw |-> TRUE, commands |-> <<>>]
Returns(commands) == [threw |-> FALSE, commands |-> commands]

WithPath(diff, path) == [diff EXCEPT !.path = path]

\* collection.requests, collection.servers, ...: a list of uids
UidList(collection, field) ==
  LET list == ObjGet(collection, field)
  IN  IF list.t = "array" THEN [i \in 1..Len(list.a) |-> list.a[i].s] ELSE <<>>

\* collection.servers[index]
UidAt(collection, field, index) ==
  IF IsNumber(index) /\ index.idx < Len(UidList(collection, field))
  THEN Str(UidList(collection, field)[index.idx + 1])
  ELSE Undefined

\* object[key] = value, delete object[key]
ObjSet(o, k, v) ==
  IF ObjHas(o, k)
  THEN Obj([i \in 1..Len(o.e) |-> IF o.e[i][1] = k THEN <<k, v>> ELSE o.e[i]])
  ELSE Obj(Append(o.e, <<k, v>>))
ObjDelete(o, k) == Obj(SelectSeq(o.e, LAMBDA e : e[1] # k))

\* lines 266-271 and 343-349: [...array], then push(value) or pop()
arrayTail(diff, array, value) ==
  IF diff.type = "CREATE" THEN Arr(Append(array.a, value))
  ELSE IF diff.type = "REMOVE" /\ Len(array.a) > 0
  THEN Arr(SubSeq(array.a, 1, Len(array.a) - 1))
  ELSE array

\* lines 250-281
diffToCollectionPayload(diff, collection) ==
  LET uid == ObjGet(collection, "uid").s
      parsed == parseDiff(collectionSchema, diff)
      array == getNestedValue(collection, parsed.atMinusOne)
  IN  IF IsNumber(AtLast(diff.path)) /\ diff.type \in {"CREATE", "REMOVE"}
      THEN IF ~parsed.ok THEN Returns(<<>>)
           \* spreading a value that is no array raises a TypeError
           ELSE IF array.t # "array" THEN Thrown
           ELSE Returns(<<EditCommand(uid, parsed.pathMinusOne, parsed.atMinusOne,
                                      arrayTail(diff, array, parsed.value))>>)
      ELSE IF ~parsed.ok THEN Returns(<<>>)
           ELSE Returns(<<EditCommand(uid, parsed.path, parsed.at, parsed.value)>>)

\* mutant of renameFanOut: the first request the filter keeps, not every one
renameFirstOnly(diff, owned, requests, field, keeps) ==
  IF \E i \in 1..Len(owned) : owned[i] \notin DOMAIN requests THEN Thrown
  ELSE LET kept == SelectSeq(owned, LAMBDA uid : keeps[uid])
       IN  Returns([i \in 1..(IF Len(kept) > 0 THEN 1 ELSE 0) |->
                      EditCommand(kept[i], field, <<Key(field)>>, diff.value)])

\* lines 303-328: one edit per owned request the filter keeps
renameFanOut(diff, owned, requests, field, keeps) ==
  IF \E i \in 1..Len(owned) : owned[i] \notin DOMAIN requests THEN Thrown
  ELSE LET kept == SelectSeq(owned, LAMBDA uid : keeps[uid])
       IN  Returns([i \in 1..Len(kept) |->
                      EditCommand(kept[i], field, <<Key(field)>>, diff.value)])

\* Object.entries(value)[0]; nothing to destructure raises a TypeError
firstEntry(value) ==
  IF value.t = "object" /\ Len(value.e) > 0
  THEN [threw |-> FALSE, key |-> Key(value.e[1][1]), value |-> value.e[1][2]]
  ELSE IF value.t = "array" /\ Len(value.a) > 0
  THEN [threw |-> FALSE, key |-> Key("0"), value |-> value.a[1]]
  ELSE IF value.t = "string" /\ value.s # ""
  THEN [threw |-> FALSE, key |-> Key("0"), value |-> Str(SubSeq(value.s, 1, 1))]
  ELSE [threw |-> TRUE, key |-> NoSeg, value |-> Undefined]

\* lines 387-398: each requirement reduced to its first scheme
normalizeSecurity(operationSecurity) ==
  Arr([i \in 1..Len(operationSecurity.a) |->
         LET req == operationSecurity.a[i]
         IN  IF req.t = "object" /\ Len(req.e) > 0 THEN Obj(<<req.e[1]>>) ELSE req])

\* lines 360-404
addRequest(diff, collection, path, method) ==
  LET first == firstEntry(diff.value)
      operation == IF SegTruthy(method) THEN diff.value ELSE first.value
      newMethod == IF SegTruthy(method) THEN method ELSE first.key
      field(k) == IF operation.t = "object" THEN ObjGet(operation, k) ELSE Undefined
      servers == IF field("servers") \in {Undefined, Null} THEN Arr(<<>>) ELSE field("servers")
      operationServers == safeParse(ZodArray(serverSchema), servers)
      operationSecurity == field("security")
      rest == IF operation.t = "object" THEN ObjDelete(operation, "security") ELSE Obj(<<>>)
      payload1 ==
        ObjSet(ObjSet(ObjSet(ObjSet(rest,
          "method", IF isHTTPMethod(newMethod) THEN SegValue(newMethod) ELSE Str("get")),
          "path", SegValue(path)),
          "parameters", IF field("parameters") \in {Undefined, Null}
                        THEN Arr(<<>>) ELSE field("parameters")),
          "servers", Arr([i \in 1..Len(operationServers.data.a) |->
                            ObjGet(operationServers.data.a[i], "uid")]))
      requestPayload ==
        IF operationSecurity.t = "array" /\ Len(operationSecurity.a) > 0
        THEN ObjSet(payload1, "security", normalizeSecurity(operationSecurity))
        ELSE payload1
      request == schemaModel(requestPayload, requestSchema)
  IN  IF first.threw THEN Thrown
      \* reading `servers` of undefined or null raises a TypeError
      ELSE IF operation \in {Undefined, Null} THEN Thrown
      \* line 371: serverSchema.array().parse(...)
      ELSE IF ~operationServers.success THEN Thrown
      \* line 388: a string has a length and no map
      ELSE IF operationSecurity.t = "string" /\ operationSecurity.s # "" THEN Thrown
      ELSE IF Truthy(request)
      THEN Returns(<<AddCommand(request, ObjGet(collection, "uid").s)>>)
      ELSE Returns(<<>>)

\* the condition of lines 334, 410 and 420
isRequestAt(r, path, method) ==
  ObjGet(r, "path") = SegValue(path) /\ ObjGet(r, "method") = SegValue(method)

\* lines 290-431
diffToRequestPayload(diff, collection, requests) ==
  LET path == At(diff.path, 1)
      method == At(diff.path, 2)
      keys == Slice(diff.path, 3)
      owned == UidList(collection, "requests")
      found == findResource(owned, requests,
                            [uid \in DOMAIN requests |->
                               isRequestAt(requests[uid], path, method)])
      request == found.resource
      tail == parseDiff(requestSchema, WithPath(diff, Slice(diff.path, 3)))
      array == getNestedValue(request, tail.atMinusOne)
      parsed == parseDiff(requestSchema, WithPath(diff, keys))
  IN  IF path = Key("path") /\ diff.type = "CHANGE"
      THEN renameFanOut(diff, owned, requests, "path",
                        [uid \in DOMAIN requests |->
                           ObjGet(requests[uid], "path") = diff.oldValue])
      ELSE IF method = Key("method") /\ diff.type = "CHANGE"
      THEN renameFanOut(diff, owned, requests, "method",
                        [uid \in DOMAIN requests |->
                           /\ ObjGet(requests[uid], "method") = diff.oldValue
                           /\ ObjGet(requests[uid], "path") = SegValue(path)])
      ELSE IF diff.type # "CHANGE" /\ IsNumber(AtLast(keys))
      THEN IF found.threw THEN Thrown
           ELSE IF request = Null \/ ~tail.ok THEN Returns(<<>>)
           ELSE IF array.t # "array" THEN Thrown
           ELSE Returns(<<EditCommand(ObjGet(request, "uid").s, tail.pathMinusOne,
                                      tail.atMinusOne, arrayTail(diff, array, tail.value))>>)
      ELSE IF diff.type = "CREATE" THEN addRequest(diff, collection, path, method)
      ELSE IF diff.type = "REMOVE"
      THEN IF found.threw THEN Thrown
           ELSE IF request # Null
           THEN Returns(<<DeleteCommand(ObjGet(request, "uid").s, ObjGet(collection, "uid").s)>>)
           ELSE Returns(<<>>)
      ELSE IF diff.type = "CHANGE"
      THEN IF found.threw THEN Thrown
           ELSE IF request = Null \/ ~parsed.ok THEN Returns(<<>>)
           ELSE Returns(<<EditCommand(ObjGet(request, "uid").s, parsed.path, parsed.at,
                                      parsed.value)>>)
      ELSE Returns(<<>>)

\* lines 475-511 and, with the `variables` case of lines 449-451, lines 434-472
indexedPayload(diff, collection, table, field, schema, isServer) ==
  LET index == At(diff.path, 1)
      keys == Slice(diff.path, 2)
      uid == UidAt(collection, field, index)
      entity == IF uid = Undefined THEN Undefined ELSE Lookup(table, uid.s)
      parsed == parseDiff(schema, WithPath(diff, keys))
      removeVariables == isServer /\ diff.type = "REMOVE" /\ AtLast(keys) = Key("variables")
      added == schemaModel(diff.value, schema)
  IN  IF Len(keys) > 0
      THEN IF entity = Undefined \/ ~parsed.ok THEN Returns(<<>>)
           ELSE Returns(<<EditCommand(uid.s, parsed.path, parsed.at,
                                      IF removeVariables THEN Obj(<<>>) ELSE parsed.value)>>)
      ELSE IF diff.type = "REMOVE" /\ (IF isServer THEN uid # Undefined ELSE TRUE)
      THEN IF isServer \/ entity # Undefined
           THEN Returns(<<DeleteCommand(uid.s, ObjGet(collection, "uid").s)>>)
           ELSE Returns(<<>>)
      ELSE IF diff.type = "CREATE"
      THEN IF Truthy(added)
           THEN Returns(<<AddCommand(added, ObjGet(collection, "uid").s)>>)
           ELSE Returns(<<>>)
      ELSE Returns(<<>>)

\* lines 434-472
diffToServerPayload(diff, collection, servers) ==
  indexedPayload(diff, collection, servers, "servers", serverSchema, TRUE)

\* lines 475-511
diffToTagPayload(diff, tags, collection) ==
  indexedPayload(diff, collection, tags, "tags", tagSchema, FALSE)

\* lines 591-602: the scopes of the flow copied, one scope set or deleted
scopesEdit(diff, scheme, _path) ==
  LET flow == ObjGet(scheme, "flow")
      current == IF flow.t = "object" THEN ObjGet(flow, "scopes") ELSE Undefined
      scopes == IF current.t = "object" THEN current ELSE Obj(<<>>)
      name == IF At(_path, 1) = NoSeg THEN "undefined" ELSE SegString(At(_path, 1))
  IN  \* reading `scopes` of an undefined flow raises a TypeError
      IF flow \in {Undefined, Null} THEN Thrown
      ELSE Returns(<<EditCommand(ObjGet(scheme, "uid").s, "flow.scopes",
                                 <<Key("flow"), Key("scopes")>>,
                                 IF diff.type \in {"CREATE", "CHANGE"}
                                 THEN ObjSet(scopes, name, diff.value)
                                 ELSE ObjDelete(scopes, name))>>)

\* lines 544-632
diffToSecuritySchemePayload(diff, collection, securitySchemes) ==
  LET schemeName == At(diff.path, 2)
      keys == Slice(diff.path, 3)
      byKey == IF IsString(schemeName) THEN Lookup(securitySchemes, schemeName.key)
               ELSE Undefined
      found == findResource(UidList(collection, "securitySchemes"), securitySchemes,
                            [uid \in DOMAIN securitySchemes |->
                               ObjGet(securitySchemes[uid], "nameKey") = SegValue(schemeName)])
      scheme == IF byKey # Undefined THEN byKey ELSE found.resource
      isOauth2 == ObjGet(scheme, "type") = Str("oauth2")
      isFlow == At(keys, 0) = Key("flows") /\ isOauth2
      flow == ObjGet(scheme, "flow")
      schema ==
        IF isFlow
        THEN narrowUnionSchema(oasOauthFlowSchema, "type",
                               IF flow.t = "object" THEN ObjGet(flow, "type") ELSE Undefined)
        ELSE narrowUnionSchema(securitySchemeSchema, "type", ObjGet(scheme, "type"))
      _path == IF isFlow THEN Slice(keys, 2) ELSE keys
      parsed == parseDiff(schema, WithPath(diff, _path))
      at == IF At(keys, 0) = Key("flows") THEN <<Key("flow")>> \o _path ELSE _path
  IN  IF byKey = Undefined /\ found.threw THEN Thrown
      ELSE IF Len(keys) > 0
      THEN IF scheme = Null THEN Returns(<<>>)
           ELSE IF At(_path, 0) = Key("scopes") /\ isOauth2 THEN scopesEdit(diff, scheme, _path)
           ELSE IF schema = NoSchema THEN Returns(<<>>)
           ELSE IF ~parsed.ok THEN Returns(<<>>)
           ELSE Returns(<<EditCommand(ObjGet(scheme, "uid").s,
                                      IF At(keys, 0) = Key("flows") THEN Join(at)
                                      ELSE parsed.path,
                                      at, parsed.value)>>)
      ELSE IF diff.type = "REMOVE"
      THEN IF scheme = Null THEN Returns(<<>>)
           ELSE Returns(<<DeleteCommand(ObjGet(scheme, "uid").s, NoParent)>>)
      ELSE IF diff.type = "CREATE"
      \* line 628: securitySchemeSchema.parse(diff.value)
      THEN IF parseThrows(securitySchemeSchema, diff.value) THEN Thrown
           ELSE Returns(<<AddCommand(safeParse(securitySchemeSchema, diff.value).data,
                                     ObjGet(collection, "uid").s)>>)
      ELSE Returns(<<>>)

(***************************************************************************)
(* Inputs of the rename combiner: operation bodies, path items and the    *)
(* diff entries a document diff reports about them.                       *)
(***************************************************************************)
BodyX == Obj(<< <<"summary", Str("x")>> >>)
BodyXD == Obj(<< <<"summary", Str("y")>>, <<"description", Str("d")>> >>)
BodyTags == Obj(<< <<"summary", Str("x")>>, <<"tags", Arr(<<Str("t")>>)>> >>)

ItemGetX == Obj(<< <<"get", BodyX>> >>)
ItemGetXD == Obj(<< <<"get", BodyXD>> >>)
ItemPostX == Obj(<< <<"post", BodyX>> >>)

PathsA == <<Key("paths"), Key("/a")>>
PathsB == <<Key("paths"), Key("/b")>>

Remove(path, oldValue) == Entry("REMOVE", path, Undefined, oldValue)
Create(path, value) == Entry("CREATE", path, value, Undefined)
Change(path, oldValue, value) == Entry("CHANGE", path, value, oldValue)

OperationEntries ==
  { Remove(PathsA \o <<Key("get")>>, BodyX),
    Create(PathsA \o <<Key("post")>>, BodyX),
    Create(PathsA \o <<Key("post")>>, BodyXD),
    Create(PathsB \o <<Key("get")>>, BodyTags) }

PathItemEntries ==
  { Remove(PathsA, ItemGetX),
    Create(PathsB, ItemGetX),
    Create(PathsB, ItemGetXD),
    Create(PathsB, ItemPostX) }

DeepEntries ==
  { Remove(PathsA \o <<Key("get"), Key("summary")>>, Str("x")),
    Create(PathsA \o <<Key("get"), Key("description")>>, Str("x")),
    Remove(PathsA \o <<Key("get"), Key("tags"), Idx(1)>>, Str("t")),
    Change(PathsA \o <<Key("get"), Key("summary")>>, Str("x"), Str("y")) }

OtherEntries ==
  { Create(<<Key("servers"), Idx(0)>>, Obj(<< <<"url", Str("u")>> >>)),
    Remove(<<Key("info"), Key("description")>>, Str("x")),
    Change(<<Key("info"), Key("title")>>, Str("x"), Str("y")) }

Entries == OperationEntries \cup PathItemEntries \cup DeepEntries \cup OtherEntries

RECURSIVE SeqsUpTo(_, _)
SeqsUpTo(S, n) ==
  IF n = 0 THEN {<<>>}
  ELSE LET shorter == SeqsUpTo(S, n - 1)
       IN  shorter \cup {Append(q, e) : q \in {r \in shorter : Len(r) = n - 1}, e \in S}

DiffLists == SeqsUpTo(Entries, MaxDiffLen)

\* a top-level call, and the nested call the combiner makes for a renamed node
PathPrefixes == {<<>>, PathsB}

NoStore == [none |-> TRUE]
NoOutput == [none |-> TRUE]

(***************************************************************************)
(* Specification of the rename combiner: any diff list, one call.         *)
(***************************************************************************)
InitCombine ==
  /\ pc = "combine"
  /\ input \in [diff : DiffLists, pathPrefix : PathPrefixes]
  /\ output = NoOutput
  /\ store = NoStore

CallCombineRenameDiffs ==
  /\ pc = "combine"
  /\ output' = combineRenameDiffs(input.diff, input.pathPrefix)
  /\ pc' = "combined"
  /\ UNCHANGED <<input, store>>

NextCombine == CallCombineRenameDiffs

SpecCombine == InitCombine /\ [][NextCombine]_vars

(***************************************************************************)
(* Properties of the rename combiner.                                     *)
(***************************************************************************)
InOperations(d) == At(d.path, 0) = Key("paths")

\* a top-level call has been made
TopLevelCalled == pc = "combined" /\ input.pathPrefix = <<>>

\* the loop has completed its pass over entry i (1-based) of the list
Reached(i) == i <= Len(output.marks)

\* the entries the pass over entry i pushed onto `combined`
PushedAt(i) ==
  SubSeq(output.combined, (IF i = 1 THEN 0 ELSE output.marks[i - 1]) + 1, output.marks[i])

\* entry i is a REMOVE in the operations section and entry i + 1 a CREATE in it
RenamePairAt(diff, i) ==
  /\ i < Len(diff)
  /\ diff[i].type = "REMOVE" /\ InOperations(diff[i])
  /\ diff[i + 1].type = "CREATE" /\ InOperations(diff[i + 1])

RECURSIVE DeepEqual(_, _)
DeepEqual(a, b) ==
  IF a.t # b.t THEN FALSE
  ELSE IF a.t = "array"
  THEN Len(a.a) = Len(b.a) /\ \A i \in 1..Len(a.a) : DeepEqual(a.a[i], b.a[i])
  ELSE IF a.t = "object"
  THEN /\ {a.e[i][1] : i \in 1..Len(a.e)} = {b.e[i][1] : i \in 1..Len(b.e)}
       /\ \A i \in 1..Len(a.e) : DeepEqual(a.e[i][2], ObjGet(b, a.e[i][1]))
  ELSE a = b

SelectNotInOperations(entries) == SelectSeq(entries, LAMBDA d : ~InOperations(d))

\* C2: in a top-level call, for every rename pair whose bodies differ, each
\* entry e of the structural diff of the old body against the new body is in
\* the output with path = the CREATE entry's full path followed by e's path
\* (the prefix applied exactly once), whatever the position of e.
C2_BodyDiffPrefixedOnce ==
  TopLevelCalled =>
    \A i \in 1..Len(input.diff) :
      ( /\ RenamePairAt(input.diff, i)
        /\ Reached(i)
        /\ IsContainer(input.diff[i].oldValue) /\ IsContainer(input.diff[i + 1].value)
        /\ ~DeepEqual(input.diff[i].oldValue, input.diff[i + 1].value) )
      => LET bodyDiff == microdiff(input.diff[i].oldValue, input.diff[i + 1].value)
         IN  \A k \in 1..Len(bodyDiff) :
               \E m \in 1..Len(PushedAt(i)) :
                 PushedAt(i)[m].path = input.diff[i + 1].path \o bodyDiff[k].path

\* C3: in a top-level call, a REMOVE in the operations section immediately
\* followed by a CREATE in the operations section with a structurally equal
\* value is replaced by exactly the rename CHANGE entries: one for the path key
\* if the path strings differ, one for the method if both methods are present
\* and differ; nothing else is emitted for the pair.
C3_EqualBodiesRenameOnly ==
  TopLevelCalled =>
    \A i \in 1..Len(input.diff) :
      ( /\ RenamePairAt(input.diff, i)
        /\ Reached(i - 1)
        /\ DeepEqual(input.diff[i].oldValue, input.diff[i + 1].value) )
      => LET rem == input.diff[i]
             cre == input.diff[i + 1]
             pathRenamed == At(rem.path, 1) # At(cre.path, 1)
             methodRenamed ==
               /\ At(rem.path, 2) # NoSeg /\ At(cre.path, 2) # NoSeg
               /\ At(rem.path, 2) # At(cre.path, 2)
             expected ==
               (IF pathRenamed
                THEN <<Change(<<Key("paths"), Key("path")>>,
                              SegValue(At(rem.path, 1)), SegValue(At(cre.path, 1)))>>
                ELSE <<>>)
               \o (IF methodRenamed
                   THEN <<Change(<<Key("paths"), At(cre.path, 1), Key("method")>>,
                                 SegValue(At(rem.path, 2)), SegValue(At(cre.path, 2)))>>
                   ELSE <<>>)
         IN  /\ Reached(i + 1)
             /\ PushedAt(i) = expected
             /\ PushedAt(i + 1) = <<>>

\* C4: in a top-level call every input entry outside the operations section is
\* in the output exactly once, unchanged and in the same relative order.
C4_OtherEntriesPassThrough ==
  (TopLevelCalled /\ ~output.threw) =>
    SelectNotInOperations(output.combined) = SelectNotInOperations(input.diff)

\* a REMOVE that is the last entry or is followed by something other than a CREATE
LoneRemoveAt(diff, i) ==
  /\ diff[i].type = "REMOVE"
  /\ i = Len(diff) \/ diff[i + 1].type # "CREATE"

Uids == {"r1", "r2"}
PathStrings == {"/a", "/b"}
Methods == {"get", "post"}

Request(uid, path, method, tags) ==
  Obj(<< <<"uid", Str(uid)>>, <<"path", Str(path)>>, <<"method", Str(method)>>,
         <<"tags", Arr(tags)>> >>)

\* every table from a subset of the uids to a request entity of that uid
RequestTables(uids) ==
  UNION { { [u \in D |-> Request(u, pm[u][1], pm[u][2], <<>>)] :
              pm \in [D -> PathStrings \X Methods] } : D \in SUBSET uids }

InitFind ==
  /\ pc = "find"
  /\ input \in [arr : SeqsUpTo(Uids, MaxKeys), resources : RequestTables(Uids),
                path : PathStrings, method : Methods]
  /\ output = NoOutput
  /\ store = NoStore

CallFindResource ==
  /\ pc = "find"
  /\ output' = findResource(input.arr, input.resources,
                            [uid \in DOMAIN input.resources |->
                               isRequestAt(input.resources[uid],
                                           Key(input.path), Key(input.method))])
  /\ pc' = "found"
  /\ UNCHANGED <<input, store>>

NextFind == CallFindResource

SpecFind == InitFind /\ [][NextFind]_vars

\* C8: findResource returns the entity of the first key, in key order, whose
\* table entry satisfies the predicate, and returns null without raising an
\* error when the list is empty, when no entity satisfies the predicate and
\* when a key of the list is missing from the table.
C8_FindResourceFirstMatchOrNull ==
  pc = "found" =>
    LET holds(i) ==
          /\ input.arr[i] \in DOMAIN input.resources
          /\ ObjGet(input.resources[input.arr[i]], "path") = Str(input.path)
          /\ ObjGet(input.resources[input.arr[i]], "method") = Str(input.method)
        hits == {i \in 1..Len(input.arr) : holds(i)}
        first == CHOOSE i \in hits : \A j \in hits : i <= j
    IN  /\ ~output.threw
        /\ output.resource = IF hits = {} THEN Null ELSE input.resources[input.arr[first]]

(***************************************************************************)
(* Specification of the union narrower: schemas under up to MaxWrap       *)
(* optional/default wrappers, any discriminator field and value.          *)
(***************************************************************************)
ApiKeyOption ==
  ZodObject(<< <<"type", ZodLiteral(Str("apiKey"))>>, <<"name", ZodString>> >>)
HttpOption ==
  ZodObject(<< <<"type", ZodLiteral(Str("http"))>>, <<"scheme", ZodString>> >>)
ImplicitOption ==
  ZodObject(<< <<"type", ZodLiteral(Str("implicit"))>>, <<"authorizationUrl", ZodString>> >>)
PasswordOption ==
  ZodObject(<< <<"type", ZodLiteral(Str("password"))>>, <<"tokenUrl", ZodString>> >>)

NarrowBases ==
  { ZodUnion(<<ApiKeyOption, HttpOption>>),
    ZodDiscriminatedUnion("type", <<ImplicitOption, PasswordOption>>),
    \* an option that is no object, one whose field is no literal, two that match
    ZodUnion(<<ZodString,
               ZodObject(<< <<"type", ZodString>> >>),
               ZodOptional(ApiKeyOption),
               ApiKeyOption,
               ZodObject(<< <<"type", ZodLiteral(Str("apiKey"))>>, <<"in", ZodString>> >>)>>),
    ApiKeyOption,
    ZodString }

RECURSIVE Wrapped(_, _)
Wrapped(S, n) ==
  IF n = 0 THEN S
  ELSE LET inner == Wrapped(S, n - 1)
       IN  inner \cup {ZodOptional(x) : x \in inner} \cup {ZodDefault(x, Undefined) : x \in inner}

InitNarrow ==
  /\ pc = "narrow"
  /\ input \in [schema : Wrapped(NarrowBases, MaxWrap),
                key : {"type", "in"},
                value : {Str("apiKey"), Str("http"), Str("implicit"), Str("none"), Undefined}]
  /\ output = NoOutput
  /\ store = NoStore

CallNarrowUnionSchema ==
  /\ pc = "narrow"
  /\ output' = [schema |-> narrowUnionSchema(input.schema, input.key, input.value)]
  /\ pc' = "narrowed"
  /\ UNCHANGED <<input, store>>

NextNarrow == CallNarrowUnionSchema

SpecNarrow == InitNarrow /\ [][NextNarrow]_vars

\* the schema under every optional/default wrapper
RECURSIVE Stripped(_)
Stripped(schema) ==
  IF schema.z \in {"ZodOptional", "ZodDefault"}
  THEN Stripped(IF schema.z = "ZodOptional" THEN schema.inner ELSE schema.innerType)
  ELSE schema

\* option i of union u is an object whose field `key` is the literal `value`
IsVariantFor(u, i, key, value) ==
  /\ u.options[i].z = "ZodObject"
  /\ \E k \in 1..Len(u.options[i].shape) :
       u.options[i].shape[k] = <<key, ZodLiteral(value)>>

\* C10: narrowUnionSchema returns the first variant, in declaration order, of
\* the unwrapped shape that is an object whose field `field` is a literal equal
\* to `value`, and null when no variant matches, when the matching field is not
\* a literal or when the unwrapped shape is not a union.
C10_NarrowFirstMatchingVariant ==
  pc = "narrowed" =>
    LET u == Stripped(input.schema)
        isUnion == u.z \in {"ZodUnion", "ZodDiscriminatedUnion"}
        hits == IF isUnion
                THEN {i \in 1..Len(u.options) : IsVariantFor(u, i, input.key, input.value)}
                ELSE {}
    IN  IF hits = {} THEN output.schema = NoSchema
        ELSE \E i \in hits : (\A j \in hits : i <= j) /\ output.schema = u.options[i]

\* C10 witness: a wrapped union narrowed to a variant that is not its first
\* option, with a later option matching as well.
C10_Witness ==
  /\ pc = "narrowed"
  /\ input.schema.z \in {"ZodOptional", "ZodDefault"}
  /\ LET u == Stripped(input.schema)
     IN  /\ u.z = "ZodUnion"
         /\ \E i, j \in 1..Len(u.options) :
              /\ 1 < i /\ i < j
              /\ IsVariantFor(u, i, input.key, input.value)
              /\ IsVariantFor(u, j, input.key, input.value)
              /\ output.schema = u.options[i]


(***************************************************************************)
(* The workspace store the builders read and the mutators write: the      *)
(* collection, one table per entity kind, the counter the uid generator   *)
(* draws from, and the call applied last with the snapshots it was given. *)
(***************************************************************************)
MaxSteps == 2

NoLast == [builder |-> "none"]

Table(entities) ==
  [uid \in {ObjGet(entities[i], "uid").s : i \in 1..Len(entities)} |->
     entities[CHOOSE i \in 1..Len(entities) : ObjGet(entities[i], "uid").s = uid]]

BaseCollection ==
  Obj(<< <<"uid", Str("c1")>>,
         <<"info", Obj(<< <<"title", Str("API")>> >>)>>,
         <<"security", Arr(<<Obj(<< <<"apiKeyAuth", Arr(<<>>)>> >>)>>)>>,
         <<"requests", Arr(<<Str("r1"), Str("r2")>>)>>,
         <<"servers", Arr(<<Str("s1")>>)>>,
         <<"tags", Arr(<<Str("t1")>>)>>,
         <<"securitySchemes", Arr(<<Str("k1"), Str("k2")>>)>> >>)

BaseStore ==
  [collection |-> BaseCollection,
   requests |->
     Table(<< Request("r1", "/a", "get", <<Str("pets")>>),
              Obj(<< <<"uid", Str("r2")>>, <<"path", Str("/a")>>,
                     <<"method", Str("post")>>, <<"summary", Str("x")>> >>) >>),
   servers |->
     Table(<< Obj(<< <<"uid", Str("s1")>>, <<"url", Str("u")>>,
                     <<"variables",
                       Obj(<< <<"foo", Obj(<< <<"default", Str("x")>> >>)>> >>)>> >>) >>),
   tags |-> Table(<< Obj(<< <<"uid", Str("t1")>>, <<"name", Str("pets")>> >>) >>),
   securitySchemes |->
     Table(<< Obj(<< <<"uid", Str("k1")>>, <<"nameKey", Str("apiKeyAuth")>>,
                     <<"type", Str("apiKey")>>, <<"name", Str("key")>>,
                     <<"in", Str("header")>> >>),
              Obj(<< <<"uid", Str("k2")>>, <<"nameKey", Str("oauth")>>,
                     <<"type", Str("oauth2")>>,
                     <<"flow", Obj(<< <<"type", Str("implicit")>>,
                                      <<"authorizationUrl", Str("")>>,
                                      <<"scopes", Obj(<< <<"read", Str("r")>> >>)>>,
                                      <<"token", Str("")>> >>)>> >>) >>),
   nextUid |-> 1,
   steps |-> 0,
   last |-> NoLast]

\* the table and the uid list of the collection a builder's commands address
TableOf(builder) ==
  CASE builder = "request" -> "requests"
    [] builder = "server" -> "servers"
    [] builder = "tag" -> "tags"
    [] OTHER -> "securitySchemes"

SchemaOf(builder) ==
  CASE builder = "collection" -> collectionSchema
    [] builder = "request" -> requestSchema
    [] builder = "server" -> serverSchema
    [] builder = "tag" -> tagSchema
    [] OTHER -> securitySchemeSchema

\* the entity an edit of the builder addresses
TargetOf(st, builder, uid) ==
  IF builder = "collection" THEN st.collection ELSE Lookup(st[TableOf(builder)], uid)

\* set(entity, path, value) of the mutators
RECURSIVE setNestedValue(_, _, _)
setNestedValue(v, at, value) ==
  IF Len(at) = 0 THEN value
  ELSE LET seg == Head(at)
           inner == setNestedValue(Child(v, seg), Tail(at), value)
       IN  IF v.t = "array" /\ IsNumber(seg)
           THEN IF seg.idx < Len(v.a)
                THEN Arr([i \in 1..Len(v.a) |-> IF i = seg.idx + 1 THEN inner ELSE v.a[i]])
                ELSE Arr(Append(v.a, inner))
           ELSE IF v.t = "object" THEN ObjSet(v, SegString(seg), inner)
           ELSE ObjSet(Obj(<<>>), SegString(seg), inner)

WithoutUid(list, uid) == Arr(SelectSeq(list.a, LAMBDA u : u # Str(uid)))

\* mutators.edit, mutators.add and mutators.delete
applyCommand(st, builder, c) ==
  LET table == TableOf(builder)
      fresh == "n" \o ToString(st.nextUid)
  IN  IF c.method = "edit"
      THEN IF builder = "collection"
           THEN [st EXCEPT !.collection = setNestedValue(@, c.at, c.value)]
           ELSE IF c.uid \in DOMAIN st[table]
           THEN [st EXCEPT ![table] = [@ EXCEPT ![c.uid] = setNestedValue(@, c.at, c.value)]]
           ELSE st
      ELSE IF c.method = "add"
      THEN [st EXCEPT ![table] = [u \in DOMAIN @ \cup {fresh} |->
                                    IF u = fresh THEN ObjSet(c.entity, "uid", Str(fresh))
                                    ELSE @[u]],
                      !.collection = ObjSet(@, table,
                                            Arr(Append(ObjGet(@, table).a, Str(fresh)))),
                      !.nextUid = @ + 1]
      ELSE [st EXCEPT ![table] = [u \in DOMAIN @ \ {c.uid} |-> @[u]],
                      !.collection = ObjSet(@, table, WithoutUid(ObjGet(@, table), c.uid))]

RECURSIVE applyCommands(_, _, _)
applyCommands(st, builder, commands) ==
  IF Len(commands) = 0 THEN st
  ELSE applyCommands(applyCommand(st, builder, Head(commands)), builder, Tail(commands))

\* one builder called on one entry against the store
build(builder, diff, st) ==
  CASE builder = "collection" -> diffToCollectionPayload(diff, st.collection)
    [] builder = "request" -> diffToRequestPayload(diff, st.collection, st.requests)
    [] builder = "server" -> diffToServerPayload(diff, st.collection, st.servers)
    [] builder = "tag" -> diffToTagPayload(diff, st.tags, st.collection)
    [] OTHER -> diffToSecuritySchemePayload(diff, st.collection, st.securitySchemes)


(***************************************************************************)
(* Inputs of the builders: for each one, entries that resolve and parse,  *)
(* entries whose path, value or target does not, whole-entity entries and *)
(* array-tail entries.                                                    *)
(***************************************************************************)
P(keys) == [i \in 1..Len(keys) |-> Key(keys[i])]

CollectionEntries ==
  { Change(P(<<"info", "title">>), Str("API"), Str("New")),
    Change(P(<<"info", "title">>), Str("API"), Num(5)),
    Change(P(<<"info", "nope">>), Str("a"), Str("b")),
    Create(P(<<"info", "description">>), Str("d")),
    Remove(P(<<"info", "description">>), Str("d")),
    Create(P(<<"security">>) \o <<Idx(1)>>, Obj(<< <<"oauth", Arr(<<Str("read")>>)>> >>)),
    Create(P(<<"security">>) \o <<Idx(1)>>, Str("bad")),
    Remove(P(<<"security">>) \o <<Idx(1)>>, Obj(<< <<"oauth", Arr(<<Str("read")>>)>> >>)),
    Remove(P(<<"security">>) \o <<Idx(0)>>, Obj(<< <<"apiKeyAuth", Arr(<<>>)>> >>)) }

OperationAt(path, method) == <<Key("paths"), Key(path), Key(method)>>

RequestEntries ==
  { Change(P(<<"paths", "path">>), Str("/a"), Str("/b")),
    Change(P(<<"paths", "/a", "method">>), Str("get"), Str("put")),
    Change(P(<<"paths", "/a", "method">>), Str("put"), Str("get")),
    Create(OperationAt("/a", "get") \o <<Key("tags"), Idx(1)>>, Str("dogs")),
    Create(OperationAt("/a", "get") \o <<Key("tags"), Idx(1)>>, Str("")),
    Create(OperationAt("/a", "get") \o <<Key("tags"), Idx(1)>>, Num(5)),
    Remove(OperationAt("/a", "get") \o <<Key("tags"), Idx(1)>>, Str("dogs")),
    Remove(OperationAt("/a", "get") \o <<Key("tags"), Idx(0)>>, Str("pets")),
    Create(OperationAt("/a", "post") \o <<Key("tags"), Idx(0)>>, Str("dogs")),
    Remove(OperationAt("/zz", "get") \o <<Key("tags"), Idx(0)>>, Str("pets")),
    Create(OperationAt("/b", "get"), BodyX),
    Create(<<Key("paths"), Key("/b")>>, Obj(<< <<"get", BodyX>>, <<"post", BodyXD>> >>)),
    Create(<<Key("paths"), Key("/b")>>, Obj(<<>>)),
    Create(OperationAt("/b", "get"),
           Obj(<< <<"summary", Str("x")>>, <<"servers", Arr(<<Obj(<<>>)>>)>> >>)),
    Create(OperationAt("/b", "put"),
           Obj(<< <<"summary", Num(5)>> >>)),
    Create(OperationAt("/b", "post"),
           Obj(<< <<"security",
                    Arr(<<Obj(<< <<"apiKeyAuth", Arr(<<>>)>>, <<"oauth", Arr(<<>>)>> >>),
                          Obj(<<>>)>>)>> >>)),
    Remove(OperationAt("/a", "get"), BodyX),
    Remove(<<Key("paths"), Key("/a")>>, Obj(<< <<"get", BodyX>> >>)),
    Remove(OperationAt("/zz", "get"), BodyX),
    Change(OperationAt("/a", "get") \o <<Key("summary")>>, Str("x"), Str("s2")),
    Change(OperationAt("/a", "get") \o <<Key("summary")>>, Str("x"), Str("")),
    Change(OperationAt("/a", "get") \o <<Key("summary")>>, Str("x"), Num(5)),
    Change(OperationAt("/a", "get") \o <<Key("nope")>>, Str("x"), Str("y")),
    Change(OperationAt("/zz", "get") \o <<Key("summary")>>, Str("x"), Str("y")),
    Change(OperationAt("/a", "get") \o <<Key("tags"), Idx(0)>>, Str("pets"), Str("cats")) }

ServerAt(index) == <<Key("servers"), Idx(index)>>

ServerEntries ==
  { Change(ServerAt(0) \o <<Key("url")>>, Str("u"), Str("v")),
    Change(ServerAt(0) \o <<Key("url")>>, Str("u"), Num(5)),
    Change(ServerAt(0) \o <<Key("nope")>>, Str("u"), Str("v")),
    Change(ServerAt(5) \o <<Key("url")>>, Str("u"), Str("v")),
    Create(ServerAt(0) \o <<Key("description")>>, Str("d")),
    Remove(ServerAt(0) \o <<Key("description")>>, Str("d")),
    Remove(ServerAt(0) \o <<Key("url")>>, Str("u")),
    Remove(ServerAt(0) \o <<Key("variables")>>,
           Obj(<< <<"foo", Obj(<< <<"default", Str("x")>> >>)>> >>)),
    Remove(ServerAt(0) \o <<Key("variables"), Key("foo")>>,
           Obj(<< <<"default", Str("x")>> >>)),
    Remove(ServerAt(0), Obj(<< <<"url", Str("u")>> >>)),
    Remove(ServerAt(5), Obj(<< <<"url", Str("u")>> >>)),
    Create(ServerAt(1), Obj(<< <<"url", Str("w")>> >>)),
    Create(ServerAt(1), Obj(<<>>)) }

TagAt(index) == <<Key("tags"), Idx(index)>>

TagEntries ==
  { Change(TagAt(0) \o <<Key("name")>>, Str("pets"), Str("cats")),
    Change(TagAt(0) \o <<Key("name")>>, Str("pets"), Num(5)),
    Change(TagAt(0) \o <<Key("nope")>>, Str("a"), Str("b")),
    Change(TagAt(3) \o <<Key("name")>>, Str("pets"), Str("cats")),
    Create(TagAt(0) \o <<Key("description")>>, Str("d")),
    Remove(TagAt(0) \o <<Key("description")>>, Str("d")),
    Remove(TagAt(0), Obj(<< <<"name", Str("pets")>> >>)),
    Remove(TagAt(3), Obj(<< <<"name", Str("pets")>> >>)),
    Create(TagAt(1), Obj(<< <<"name", Str("dogs")>> >>)),
    Create(TagAt(1), Obj(<<>>)) }

SchemeAt(name) == <<Key("components"), Key("securitySchemes"), Key(name)>>

SecuritySchemeEntries ==
  { Change(SchemeAt("apiKeyAuth") \o <<Key("name")>>, Str("key"), Str("X-Key")),
    Change(SchemeAt("apiKeyAuth") \o <<Key("in")>>, Str("header"), Str("body")),
    Change(SchemeAt("apiKeyAuth") \o <<Key("scheme")>>, Str("basic"), Str("bearer")),
    Change(SchemeAt("missing") \o <<Key("name")>>, Str("key"), Str("X-Key")),
    Change(SchemeAt("oauth") \o P(<<"flows", "implicit", "authorizationUrl">>),
           Str(""), Str("https")),
    Change(SchemeAt("oauth") \o P(<<"flows", "password", "tokenUrl">>), Str(""), Str("https")),
    Create(SchemeAt("oauth") \o P(<<"flows", "implicit", "scopes", "write">>), Str("w")),
    Change(SchemeAt("oauth") \o P(<<"flows", "implicit", "scopes", "read">>), Str("r"), Num(5)),
    Remove(SchemeAt("oauth") \o P(<<"flows", "implicit", "scopes", "read">>), Str("r")),
    Remove(SchemeAt("apiKeyAuth"), Obj(<< <<"type", Str("apiKey")>> >>)),
    Remove(SchemeAt("missing"), Obj(<< <<"type", Str("apiKey")>> >>)),
    Create(SchemeAt("basic"), Obj(<< <<"type", Str("http")>>, <<"scheme", Str("basic")>> >>)),
    Create(SchemeAt("odd"), Obj(<< <<"type", Str("mutualTLS")>> >>)) }

(***************************************************************************)
(* Specification of the builders: one entry handed to its builder, the    *)
(* commands applied to the store, and again.  An exception ends the pass. *)
(***************************************************************************)
InitBuild ==
  /\ pc = "ready"
  /\ input = NoOutput
  /\ output = NoOutput
  /\ store = BaseStore

\* the call of one builder on one entry, the store left as it is
Called(builder, diff) ==
  /\ input' = [builder |-> builder, diff |-> diff]
  /\ output' = build(builder, diff, store)
  /\ pc' = "built"
  /\ store' = store

CallDiffToCollectionPayload ==
  /\ pc = "ready"
  /\ store.steps < MaxSteps
  /\ \E diff \in CollectionEntries : Called("collection", diff)

CallDiffToRequestPayload ==
  /\ pc = "ready"
  /\ store.steps < MaxSteps
  /\ \E diff \in RequestEntries : Called("request", diff)

CallDiffToServerPayload ==
  /\ pc = "ready"
  /\ store.steps < MaxSteps
  /\ \E diff \in ServerEntries : Called("server", diff)

CallDiffToTagPayload ==
  /\ pc = "ready"
  /\ store.steps < MaxSteps
  /\ \E diff \in TagEntries : Called("tag", diff)

CallDiffToSecuritySchemePayload ==
  /\ pc = "ready"
  /\ store.steps < MaxSteps
  /\ \E diff \in SecuritySchemeEntries : Called("securityScheme", diff)

ApplyCommands ==
  /\ pc = "built"
  /\ ~output.threw
  /\ store' = [applyCommands(store, input.builder, output.commands)
                 EXCEPT !.steps = @ + 1,
                        !.last = [builder |-> input.builder, diff |-> input.diff,
                                  collection |-> store.collection,
                                  requests |-> store.requests]]
  /\ pc' = "ready"
  /\ UNCHANGED <<input, output>>

NextBuild ==
  \/ CallDiffToCollectionPayload
  \/ CallDiffToRequestPayload
  \/ CallDiffToServerPayload
  \/ CallDiffToTagPayload
  \/ CallDiffToSecuritySchemePayload
  \/ ApplyCommands

SpecBuild == InitBuild /\ [][NextBuild]_vars


(***************************************************************************)
(* Properties of the builders.                                            *)
(***************************************************************************)
\* the shape of the entity's field at a path, wrappers kept; a union is
\* narrowed by the type of the entity it describes
RECURSIVE fieldShape(_, _, _)
fieldShape(schema, entity, at) ==
  IF Len(at) = 0 THEN schema
  ELSE LET seg == Head(at)
           plain == unwrapSchema(schema)
           kind == IF entity.t = "object" THEN ObjGet(entity, "type") ELSE Undefined
           shape == IF plain.z \in {"ZodUnion", "ZodDiscriminatedUnion"}
                    THEN narrowUnionSchema(plain, "type", kind)
                    ELSE plain
       IN  IF shape.z = "ZodObject" /\ IsString(seg) /\ ShapeHas(shape, seg.key)
           THEN fieldShape(ShapeGet(shape, seg.key), Child(entity, seg), Tail(at))
           ELSE IF shape.z = "ZodArray" /\ IsNumber(seg)
           THEN fieldShape(shape.element, Child(entity, seg), Tail(at))
           ELSE IF shape.z = "ZodRecord" /\ IsString(seg)
           THEN fieldShape(shape.valueSchema, Child(entity, seg), Tail(at))
           ELSE NoSchema

ValidAt(schema, entity, at, value) ==
  /\ fieldShape(schema, entity, at) # NoSchema
  /\ safeParse(fieldShape(schema, entity, at), value).success

Built == pc = "built"

\* C6: every edit a builder emits carries a value valid for the shape of the
\* addressed entity at the field path of the edit
C6_EditsCarryValidValues ==
  Built /\ ~output.threw =>
    \A k \in 1..Len(output.commands) :
      output.commands[k].method = "edit" =>
        ValidAt(SchemaOf(input.builder),
                TargetOf(store, input.builder, output.commands[k].uid),
                output.commands[k].at, output.commands[k].value)

\* C7: no call of a builder raises an error: whatever the entry, the builder
\* returns, with no command when the entry cannot be processed
C7_BuildersReturnNormally == Built => ~output.threw

\* the array an array-tail entry of the collection or of a request addresses
IsArrayTail(diff) == diff.type \in {"CREATE", "REMOVE"} /\ IsNumber(AtLast(diff.path))
TailKeys(builder, diff) == IF builder = "request" THEN Slice(diff.path, 3) ELSE diff.path
Owner(builder, diff, collection, requests) ==
  IF builder = "request"
  THEN findResource(UidList(collection, "requests"), requests,
                    [uid \in DOMAIN requests |->
                       isRequestAt(requests[uid], At(diff.path, 1), At(diff.path, 2))]).resource
  ELSE collection
BaseArray(builder, diff, collection, requests) ==
  IF Owner(builder, diff, collection, requests) = Null THEN Undefined
  ELSE getNestedValue(Owner(builder, diff, collection, requests),
                      DropLast(TailKeys(builder, diff)))

\* a CREATE of a valid element at the end of an array the entity holds
IsPush(builder, diff, collection, requests) ==
  /\ builder \in {"collection", "request"}
  /\ diff.type = "CREATE"
  /\ IsNumber(AtLast(diff.path))
  /\ Len(TailKeys(builder, diff)) > 1
  /\ BaseArray(builder, diff, collection, requests).t = "array"
  /\ AtLast(diff.path).idx = Len(BaseArray(builder, diff, collection, requests).a)
  /\ ValidAt(SchemaOf(builder), Owner(builder, diff, collection, requests),
             TailKeys(builder, diff), diff.value)

TailEdit(builder, diff, collection, requests, array) ==
  Returns(<<EditCommand(ObjGet(Owner(builder, diff, collection, requests), "uid").s,
                        Join(DropLast(TailKeys(builder, diff))),
                        DropLast(TailKeys(builder, diff)), array)>>)

\* C9 (the CREATE step): an array-tail CREATE of a valid element v at index
\* len(A) emits one edit at the array's path whose value is A with v appended
C9_PushAppends ==
  Built /\ IsPush(input.builder, input.diff, store.collection, store.requests) =>
    output = TailEdit(input.builder, input.diff, store.collection, store.requests,
                      Arr(Append(BaseArray(input.builder, input.diff,
                                           store.collection, store.requests).a,
                                 input.diff.value)))

\* C9 (the round trip): after that CREATE is applied, an array-tail REMOVE at
\* the same path emits one edit at the array's path whose value is A again
C9_PopRestores ==
  /\ Built
  /\ store.last.builder = input.builder
  /\ input.diff.type = "REMOVE"
  /\ input.diff.path = store.last.diff.path
  /\ IsPush(store.last.builder, store.last.diff, store.last.collection, store.last.requests)
  => output = TailEdit(input.builder, input.diff, store.collection, store.requests,
                       BaseArray(store.last.builder, store.last.diff,
                                 store.last.collection, store.last.requests))

\* C9: array-tail push-then-pop identity on the arrays of the collection and
\* of a located request, for every valid element
C9_PushThenPopIdentity == C9_PushAppends /\ C9_PopRestores

\* C9 restricted to elements that are not falsy in JavaScript
C9_TruthyPushThenPop ==
  (Built /\ (input.diff.type = "CREATE" => Truthy(input.diff.value))
         /\ (input.diff.type = "REMOVE" /\ store.last.builder # "none"
               => Truthy(store.last.diff.value)))
    => C9_PushThenPopIdentity


(***************************************************************************)
(* Specification of a reconciliation pass over the operations section:    *)
(* the old and the new document are diffed, the diff is combined, and     *)
(* each combined entry is handed to diffToRequestPayload against the      *)
(* store as the commands of the entries before it left it.  The store     *)
(* starts with one request per operation of the old document.             *)
(***************************************************************************)
Operations == << <<"/a", "get">>, <<"/a", "post">>, <<"/b", "get">>, <<"/b", "post">> >>
Bodies == {BodyX, BodyXD}

\* an assignment of a body, or of none, to each operation
Sections == [1..Len(Operations) -> Bodies \cup {Undefined}]

Present(section) == {i \in 1..Len(Operations) : section[i] # Undefined}

PathItemOf(section, path) ==
  LET mine == SelectSeq([i \in 1..Len(Operations) |-> i],
                        LAMBDA i : i \in Present(section) /\ Operations[i][1] = path)
  IN  Obj([k \in 1..Len(mine) |-> <<Operations[mine[k]][2], section[mine[k]]>>])

DocumentOf(section) ==
  LET items == << <<"/a", PathItemOf(section, "/a")>>, <<"/b", PathItemOf(section, "/b")>> >>
  IN  Obj(<< <<"paths", Obj(SelectSeq(items, LAMBDA e : Len(e[2].e) > 0))>> >>)

\* the request the store holds for an operation of the old document
RequestOf(section, i) ==
  schemaModel(ObjSet(ObjSet(ObjSet(section[i],
                "uid", Str("r" \o ToString(i))),
                "path", Str(Operations[i][1])),
                "method", Str(Operations[i][2])),
              requestSchema)

StoreOf(section) ==
  LET owned == SelectSeq([i \in 1..Len(Operations) |-> i], LAMBDA i : i \in Present(section))
  IN  [collection |->
         ObjSet(ObjSet(BaseCollection, "servers", Arr(<<>>)),
                "requests", Arr([k \in 1..Len(owned) |-> Str("r" \o ToString(owned[k]))])),
       requests |-> Table([k \in 1..Len(owned) |-> RequestOf(section, owned[k])]),
       servers |-> Table(<<>>),
       tags |-> BaseStore.tags,
       securitySchemes |-> BaseStore.securitySchemes,
       nextUid |-> 1,
       steps |-> 0,
       last |-> NoLast]

InitSync ==
  /\ pc = "diff"
  /\ \E old \in Sections, new \in Sections :
       /\ input = [old |-> old, new |-> new]
       /\ store = StoreOf(old)
  /\ output = NoOutput

\* microdiff(old, new), then combineRenameDiffs(diff)
CombineDiff ==
  /\ pc = "diff"
  /\ LET result == combineRenameDiffs(microdiff(DocumentOf(input.old), DocumentOf(input.new)),
                                      <<>>)
     IN  /\ output' = [entries |-> result.combined, threw |-> result.threw]
         /\ pc' = IF result.threw THEN "aborted"
                  ELSE IF Len(result.combined) = 0 THEN "synced" ELSE "process"
  /\ UNCHANGED <<input, store>>

\* diffToRequestPayload on the next combined entry, its commands applied
ProcessEntry ==
  /\ pc = "process"
  /\ LET result == diffToRequestPayload(Head(output.entries), store.collection, store.requests)
     IN  IF result.threw
         THEN /\ pc' = "aborted"
              /\ output' = [output EXCEPT !.threw = TRUE]
              /\ store' = store
         ELSE /\ store' = applyCommands(store, "request", result.commands)
              /\ output' = [output EXCEPT !.entries = Tail(@)]
              /\ pc' = IF Len(output.entries) = 1 THEN "synced" ELSE "process"
  /\ UNCHANGED input

NextSync == CombineDiff \/ ProcessEntry

SpecSync == InitSync /\ [][NextSync]_vars

\* the (path, method) pairs of the requests the collection owns
OwnedOperations(st) ==
  { <<ObjGet(Lookup(st.requests, uid), "path"), ObjGet(Lookup(st.requests, uid), "method")>> :
      uid \in {u \in DOMAIN st.requests :
                 \E k \in 1..Len(UidList(st.collection, "requests")) :
                   UidList(st.collection, "requests")[k] = u} }

\* the (path, method) pairs of the operations of a section
OperationsOf(section) ==
  { <<Str(Operations[i][1]), Str(Operations[i][2])>> : i \in Present(section) }

\* C1: once every combined entry has been processed and its commands applied,
\* the owned requests are at exactly the operations of the new section
C1_StoreMatchesNewSection ==
  pc = "synced" => OwnedOperations(store) = OperationsOf(input.new)


(***************************************************************************)
(* Specification of the schema traversal: any shape of the set below,     *)
(* wrapped up to MaxWrap times in optional/default, any path of up to     *)
(* MaxPathLen segments, one call.                                         *)
(***************************************************************************)
MaxPathLen == 2

TraverseBases ==
  { ZodString,
    ZodAny,
    Fields(<< <<"a", ZodOptional(ZodDefault(ZodString, Str("")))>>,
              <<"b", ZodArray(ZodOptional(ZodNumber))>> >>),
    ZodArray(ZodOptional(Fields(<< <<"a", ZodDefault(ZodBoolean, Bool(FALSE))>> >>))),
    ZodRecord(ZodOptional(ZodDefault(ZodString, Str("")))),
    Fields(<< <<"a", ZodOptional(ZodRecord(ZodAny))>> >>) }

TraverseSegments == {Key("a"), Key("b"), Idx(0)}

InitTraverse ==
  /\ pc = "traverse"
  /\ input \in [schema : Wrapped(TraverseBases, MaxWrap),
                path : SeqsUpTo(TraverseSegments, MaxPathLen)]
  /\ output = NoOutput
  /\ store = NoStore

CallTraverseZodSchema ==
  /\ pc = "traverse"
  /\ output' = [schema |-> traverseZodSchema(input.schema, input.path)]
  /\ pc' = "traversed"
  /\ UNCHANGED <<input, store>>

NextTraverse == CallTraverseZodSchema

SpecTraverse == InitTraverse /\ [][NextTraverse]_vars

IsWrapper(schema) == schema.z \in {"ZodOptional", "ZodDefault"}

\* C11: whenever traverseZodSchema succeeds, for any path, the empty one
\* included, the shape it returns is no optional and no default wrapper
C11_TraverseReturnsUnwrapped ==
  pc = "traversed" /\ output.schema # NoSchema => ~IsWrapper(output.schema)

\* C11 for the paths that have at least one segment
C11_NonEmptyPathUnwrapped ==
  pc = "traversed" /\ output.schema # NoSchema /\ Len(input.path) > 0
    => ~IsWrapper(output.schema)


(***************************************************************************)
(* Frame of the rename combiner.                                          *)
(***************************************************************************)
\* C12: after any call of combineRenameDiffs, with an empty or a non-empty
\* pathPrefix, the diff list passed in holds the entries it held before
C12_CombineLeavesDiffUnchanged ==
  pc = "combined" => output.diff = input.diff

\* C12 for the calls with an empty pathPrefix
C12_TopLevelLeavesDiffUnchanged ==
  pc = "combined" /\ Len(input.pathPrefix) = 0 => output.diff = input.diff


(***************************************************************************)
(* Specification of the rename fan-out: any table of up to three          *)
(* requests, any list of distinct uids of the table as the requests the   *)
(* collection owns, a path rename or a method rename, one call of         *)
(* diffToRequestPayload.                                                  *)
(***************************************************************************)
FanUids == {"r1", "r2", "r3"}

\* the lists of distinct elements of a set
DistinctSeqs(S) ==
  {q \in SeqsUpTo(S, Cardinality(S)) : \A i, j \in 1..Len(q) : i # j => q[i] # q[j]}

PathRenames ==
  {Change(P(<<"paths", "path">>), Str(r[1]), Str(r[2])) :
     r \in {q \in PathStrings \X PathStrings : q[1] # q[2]}}

MethodRenames ==
  {Change(<<Key("paths"), Key(r[1]), Key("method")>>, Str(r[2]), Str(r[3])) :
     r \in {q \in PathStrings \X Methods \X Methods : q[2] # q[3]}}

InitFanOut ==
  /\ pc = "fan"
  /\ \E requests \in RequestTables(FanUids) :
       \E owned \in DistinctSeqs(DOMAIN requests) :
         \E diff \in PathRenames \cup MethodRenames :
           input = [requests |-> requests,
                    collection |-> ObjSet(BaseCollection, "requests",
                                          Arr([i \in 1..Len(owned) |-> Str(owned[i])])),
                    diff |-> diff]
  /\ output = NoOutput
  /\ store = NoStore

CallRenameFanOut ==
  /\ pc = "fan"
  /\ output' = diffToRequestPayload(input.diff, input.collection, input.requests)
  /\ pc' = "fanned"
  /\ UNCHANGED <<input, store>>

NextFanOut == CallRenameFanOut

SpecFanOut == InitFanOut /\ [][NextFanOut]_vars

IsPathRename(diff) == diff.path = P(<<"paths", "path">>)

\* the request is one the rename of the entry is about
Renamed(diff, request) ==
  IF IsPathRename(diff)
  THEN ObjGet(request, "path") = diff.oldValue
  ELSE /\ ObjGet(request, "method") = diff.oldValue
       /\ ObjGet(request, "path") = Str(diff.path[2].key)

\* the edits the claim asks for, from the k-th owned uid on
RECURSIVE ExpectedEdits(_, _, _, _)
ExpectedEdits(diff, owned, requests, k) ==
  IF k > Len(owned) THEN <<>>
  ELSE (IF Renamed(diff, requests[owned[k]])
        THEN <<[method |-> "edit", uid |-> owned[k],
                path |-> IF IsPathRename(diff) THEN "path" ELSE "method",
                at |-> <<Key(IF IsPathRename(diff) THEN "path" ELSE "method")>>,
                value |-> diff.value]>>
        ELSE <<>>) \o ExpectedEdits(diff, owned, requests, k + 1)

\* C13: a path rename yields one edit(uid, 'path', new) for each owned request
\* at the old path, a method rename under P one edit(uid, 'method', new) for
\* each owned request at P with the old method, in the collection's uid
\* order, and no other command; an empty list when no request matches
C13_RenameFansOutToMatches ==
  pc = "fanned" =>
    /\ ~output.threw
    /\ output.commands = ExpectedEdits(input.diff, UidList(input.collection, "requests"),
                                       input.requests, 1)

\* two owned requests are renamed and a third owned request is left alone
C13_Witness ==
  /\ pc = "fanned"
  /\ Len(output.commands) = 2
  /\ Len(UidList(input.collection, "requests")) = 3

\* no request matches and the list of commands is empty
C13_WitnessNoMatch ==
  /\ pc = "fanned"
  /\ Len(UidList(input.collection, "requests")) > 0
  /\ output.commands = <<>>


(***************************************************************************)
(* Specification of parseDiff: an entity shape or one of the shapes of    *)
(* the traversal, an entry of any kind with a path of up to MaxPathLen    *)
(* segments and a value of any kind, one call.                            *)
(***************************************************************************)
ParseSchemas == {requestSchema, serverSchema, tagSchema} \cup TraverseBases

ParseSegments ==
  {Key("summary"), Key("tags"), Key("parameters"), Key("url"), Key("name"),
   Key("a"), Key("b"), Idx(0)}

ParseValues ==
  {Str("x"), Str(""), Num(5), Num(0), Bool(TRUE), Bool(FALSE), Undefined, Obj(<<>>)}

InitParse ==
  /\ pc = "parse"
  /\ \E schema \in ParseSchemas, type \in {"CREATE", "CHANGE", "REMOVE"},
        path \in SeqsUpTo(ParseSegments, MaxPathLen), value \in ParseValues :
       input = [schema |-> schema,
                diff |-> Entry(type, path, IF type = "REMOVE" THEN Undefined ELSE value,
                               IF type = "CREATE" THEN Undefined ELSE Str("old"))]
  /\ output = NoOutput
  /\ store = NoStore

CallParseDiff ==
  /\ pc = "parse"
  /\ output' = parseDiff(input.schema, input.diff)
  /\ pc' = "parsed"
  /\ UNCHANGED <<input, store>>

NextParse == CallParseDiff

SpecParse == InitParse /\ [][NextParse]_vars

\* the path of the entry resolves and its value is valid for the shape reached
ResolvesAndValid ==
  /\ input.diff.type \in {"CREATE", "CHANGE"}
  /\ traverseZodSchema(input.schema, input.diff.path) # NoSchema
  /\ safeParse(traverseZodSchema(input.schema, input.diff.path), input.diff.value).success

\* C14: for a CREATE or a CHANGE whose path resolves and whose value is valid
\* for the shape reached, parseDiff succeeds with the validated value, the path
\* joined by '.' and the path without its last segment joined by '.'
C14_ValidEntryParses ==
  pc = "parsed" /\ ResolvesAndValid =>
    /\ output.ok
    /\ output.value = safeParse(traverseZodSchema(input.schema, input.diff.path),
                                input.diff.value).data
    /\ output.path = Join(input.diff.path)
    /\ output.pathMinusOne = Join(DropLast(input.diff.path))

\* C14 for the values that are not falsy in JavaScript
C14_TruthyValidEntryParses ==
  pc = "parsed" /\ ResolvesAndValid
     /\ Truthy(safeParse(traverseZodSchema(input.schema, input.diff.path),
                         input.diff.value).data)
    => /\ output.ok
       /\ output.value = safeParse(traverseZodSchema(input.schema, input.diff.path),
                                   input.diff.value).data
       /\ output.path = Join(input.diff.path)
       /\ output.pathMinusOne = Join(DropLast(input.diff.path))

====
